---- MODULE Spec2Model ----
(***************************************************************************)
(* Model of the asynchronous pull-request review pipeline:                 *)
(*   app/main.py            request path (analyze_pr, get_status)          *)
(*   app/tasks.py           worker task analyze_github_pr                  *)
(*   app/github_service.py  file listing and blob fetch                    *)
(*   app/ai_agent.py        the four agents and the orchestrator           *)
(*                                                                         *)
(* Texts (error messages, repository URLs, file names, generation-service  *)
(* answers) are sequences of tokens, so that `in`, endswith, find/rfind    *)
(* and slicing are computed and not assumed.                               *)
(***************************************************************************)
EXTENDS Integers, Sequences, FiniteSets, Bags, TLC

VARIABLES
    tasks,      \* the CodeReviewTask table: task_id -> row, or NoRow
    queue,      \* the broker: a bag of work items of analyze_github_pr
    run,        \* per worker process: the frame of analyze_github_pr it executes
    dbUp,       \* whether the database answers (False: every query/commit raises)
    outages,    \* number of database outages so far
    extra,      \* number of work items the broker has delivered without removing
    resp,       \* the last HTTP response of the request path
    accepted,   \* task ids returned to a client by POST /analyze-pr
    delivered   \* task ids of the work items handed to a worker so far

vars == <<tasks, queue, run, dbUp, outages, extra, resp, accepted, delivered>>

None == "None"

\* ------------------------------------------------------------------ bounds
MaxOutages   == 1
MaxRedeliver == 1

\* ------------------------------------------------------- program constants
max_retries      == 2
FileLimit        == 15
ContentLimit     == 100000
AnalysisLimit    == 10000
IssueLimit       == 10

\* ------------------------------------------------------------ text helpers
\* Python's `needle in hay` on texts
Contains(hay, needle) ==
    \E i \in 0..(Len(hay) - Len(needle)) :
        SubSeq(hay, i + 1, i + Len(needle)) = needle

\* str.endswith
EndsWith(s, suffix) ==
    /\ Len(s) >= Len(suffix)
    /\ SubSeq(s, Len(s) - Len(suffix) + 1, Len(s)) = suffix

\* str.rstrip('/')
RECURSIVE RStripSlash(_)
RStripSlash(s) ==
    IF Len(s) > 0 /\ s[Len(s)] = "/"
    THEN RStripSlash(SubSeq(s, 1, Len(s) - 1))
    ELSE s

\* len(s.split('/'))
SplitCount(s) == 1 + Cardinality({i \in 1..Len(s) : s[i] = "/"})

\* ------------------------------------------------------- exception messages
MsgNoCodeFiles ==
    <<"No", "code", "files", "found", "in", "PR", "or", "PR", "not", "accessible">>
MsgNotMapping  == <<"'int'", "object", "is", "not", "a", "mapping">>
MsgUnhashable  == <<"unhashable", "type:", "'list'">>
MsgDbDown      == <<"Can't", "connect", "to", "MySQL", "server">>
MsgNotConfigured == <<"Ollama", "model", "not", "configured">>
\* str() of a database error raised by a statement ends with the statement and
\* its parameters; the parameters of the write of line 86 hold the descriptions
\* of the findings, here one that reads "logger not configured"
MsgDbLost ==
    <<"Lost", "connection", "to", "MySQL", "server", "during", "query",
      "[parameters:", "logger", "not", "configured", "]">>
MsgSoftTimeLimit == <<"SoftTimeLimitExceeded()">>

\* line 104 without its second test
IsTerminalMessage_OnlyConfig(msg) == Contains(msg, <<"not", "configured">>)

\* tasks.py line 104: the failures after which no retry is requested
IsTerminalMessage(msg) ==
    \/ Contains(msg, <<"not", "configured">>)
    \/ Contains(msg, <<"No", "code", "files">>)

\* ------------------------------------------------------ results of a call
\* a call either returns a value or raises an exception with a message
Return(v) == [ok |-> TRUE,  exc |-> <<>>, value |-> v]
Raise(m)  == [ok |-> FALSE, exc |-> m,    value |-> <<>>]

\* a nullable text column / optional text
Null      == [null |-> TRUE,  text |-> <<>>]
Str(t)    == [null |-> FALSE, text |-> t]

\* ---------------------------------------------------------- GitHubService
\* the answer of the GitHub API to one request
HttpOk(body)  == [kind |-> "ok", body |-> body]
HttpFail(k)   == [kind |-> k,    body |-> <<>>]

\* get_pr_files: every failure is logged and turned into an empty list
get_pr_files(repo_url, http) ==
    IF SplitCount(RStripSlash(repo_url)) < 2 THEN <<>>
    ELSE IF http.kind = "ok" THEN http.body
    ELSE <<>>

\* a blob: present or not, and its length in characters
NoContent    == [some |-> FALSE, len |-> 0]
Content(n)   == [some |-> TRUE,  len |-> n]

\* get_file_content: 404, a body without 'content' and every exception give None
get_file_content(http) ==
    IF http.kind = "ok" THEN http.body ELSE NoContent

\* ----------------------------------------------------------------- agents
\* the bug agent consulted before the style agent
AgentTypes_BugFirst == <<"bug", "style", "performance", "best_practice">>

\* the agents in the order analyze_file consults them, by the type it tags
AgentTypes == <<"style", "bug", "performance", "best_practice">>

\* tokens of a generation-service answer
TOpen   == [t |-> "[",    line |-> None, description |-> None, type |-> None]
TClose  == [t |-> "]",    line |-> None, description |-> None, type |-> None]
TJunk   == [t |-> "junk", line |-> None, description |-> None, type |-> None]
TNum    == [t |-> "num",  line |-> None, description |-> None, type |-> None]
TObj(l, d, ty) == [t |-> "obj", line |-> l, description |-> d, type |-> ty]

LlmRaises     == [raises |-> TRUE,  text |-> <<>>]
LlmSays(text) == [raises |-> FALSE, text |-> text]

HasTok(text, t) == \E i \in 1..Len(text) : text[i].t = t
\* str.find / str.rfind as 1-based positions (0: absent)
Find(text, t) ==
    IF HasTok(text, t)
    THEN CHOOSE i \in 1..Len(text) :
            text[i].t = t /\ \A j \in 1..(i - 1) : text[j].t # t
    ELSE 0
RFind(text, t) ==
    IF HasTok(text, t)
    THEN CHOOSE i \in 1..Len(text) :
            text[i].t = t /\ \A j \in (i + 1)..Len(text) : text[j].t # t
    ELSE 0

\* json.loads of a candidate array: the texts drawn hold no nested arrays, so a
\* candidate parses exactly when it is "[" elements "]"
JsonParses(s) ==
    /\ Len(s) >= 2
    /\ s[1].t = "[" /\ s[Len(s)].t = "]"
    /\ \A i \in 2..(Len(s) - 1) : s[i].t \in {"num", "obj"}

\* XxxAnalysisAgent.analyze (the four classes differ in the prompt only)
analyze(llm) ==
    IF llm.raises THEN <<>>
    ELSE IF HasTok(llm.text, "[") /\ HasTok(llm.text, "]")
         THEN LET json_str == SubSeq(llm.text, Find(llm.text, "["), RFind(llm.text, "]"))
              IN  IF JsonParses(json_str)
                  THEN SubSeq(json_str, 2, Len(json_str) - 1)
                  ELSE <<>>
         ELSE <<>>

\* ----------------------------------------------------------- orchestrator
CodeExtensions ==
    {".py", ".js", ".ts", ".tsx", ".jsx", ".java", ".go", ".rs",
     ".cpp", ".c", ".rb", ".php", ".swift", ".kt", ".scala", ".sh"}

\* every file taken for a code file
is_code_file_Any(filename) == TRUE

is_code_file(filename) == \E ext \in CodeExtensions : EndsWith(filename, <<ext>>)

\* [{**issue, 'type': ty} for issue in issues]: raises on a non-mapping element
IsMapping(e) == e.t = "obj"
\* a tagging that keeps the type an issue came with
Tag_KeepType(issues, ty) ==
    IF \E i \in 1..Len(issues) : ~IsMapping(issues[i])
    THEN Raise(MsgNotMapping)
    ELSE Return([i \in 1..Len(issues) |->
                    [line |-> issues[i].line,
                     description |-> issues[i].description,
                     type |-> IF issues[i].type = None THEN ty ELSE issues[i].type]])
Tag(issues, ty) ==
    IF \E i \in 1..Len(issues) : ~IsMapping(issues[i])
    THEN Raise(MsgNotMapping)
    ELSE Return([i \in 1..Len(issues) |->
                    [line |-> issues[i].line,
                     description |-> issues[i].description,
                     type |-> ty]])

\* the four extend() calls of analyze_file, in order; the first raise ends them
RECURSIVE CollectIssues(_, _, _)
CollectIssues(llms, k, all_issues) ==
    IF k > Len(AgentTypes) THEN Return(all_issues)
    ELSE LET r == Tag(analyze(llms[AgentTypes[k]]), AgentTypes[k])
         IN  IF r.ok THEN CollectIssues(llms, k + 1, all_issues \o r.value)
             ELSE r

IssueKey(issue) == <<issue.line, issue.description>>
Hashable(issue) == issue.line # "list" /\ issue.description # "list"

\* the loop of lines 220-224 without its test
Unique_NoTest(all_issues, seen, unique_issues) == Return(unique_issues \o all_issues)

\* the duplicate-removal loop of analyze_file
RECURSIVE Unique(_, _, _)
Unique(all_issues, seen, unique_issues) ==
    IF all_issues = <<>> THEN Return(unique_issues)
    ELSE LET issue == Head(all_issues) IN
         IF ~Hashable(issue) THEN Raise(MsgUnhashable)
         ELSE IF IssueKey(issue) \notin seen
              THEN Unique(Tail(all_issues), seen \cup {IssueKey(issue)},
                          Append(unique_issues, issue))
              ELSE Unique(Tail(all_issues), seen, unique_issues)

\* the slice of line 228 left out
Take_All(s, n) == s

Take(s, n) == SubSeq(s, 1, IF Len(s) < n THEN Len(s) ELSE n)

\* CodeReviewOrchestrator.analyze_file; llms: agent type -> answer of the service
analyze_file(code, filename, llms) ==
    LET collected == CollectIssues(llms, 1, <<>>) IN
    IF ~collected.ok THEN collected
    ELSE LET u == Unique(collected.value, {}, <<>>) IN
         IF ~u.ok THEN u
         ELSE Return([name |-> filename, issues |-> Take(u.value, IssueLimit)])

\* lines 255-256 left out
Truncate_Whole(n) == n

\* ai_agent.py 254-257: the length of code[:10000]
Truncate(n) == IF n > AnalysisLimit THEN AnalysisLimit ELSE n

\* the bug count taken over every issue
Summary_AllCritical(results_files, all_issues) ==
    [total_files     |-> Len(results_files),
     total_issues    |-> Len(all_issues),
     critical_issues |-> Len(all_issues),
     agent_used      |-> "LangChain Multi-Agent (Ollama)"]

Summary(results_files, all_issues) ==
    [total_files     |-> Len(results_files),
     total_issues    |-> Len(all_issues),
     critical_issues |-> Cardinality({i \in 1..Len(all_issues) : all_issues[i].type = "bug"}),
     agent_used      |-> "LangChain Multi-Agent (Ollama)"]

\* the loop of analyze_pr from position i on; file_contents: filename -> blob,
\* service: filename -> (agent type -> answer)
RECURSIVE AnalyzeFrom(_, _, _, _, _, _)
AnalyzeFrom(pr_files, file_contents, service, i, all_issues, results_files) ==
    IF i > Len(pr_files)
    THEN Return([files |-> results_files, summary |-> Summary(results_files, all_issues)])
    ELSE LET filename == pr_files[i].filename IN
         IF \/ ~is_code_file(filename)
            \/ filename \notin DOMAIN file_contents
            \/ file_contents[filename].len = 0
         THEN AnalyzeFrom(pr_files, file_contents, service, i + 1, all_issues, results_files)
         ELSE LET n    == file_contents[filename].len
                  code == Content(Truncate(n))
                  analysis == analyze_file(code, filename, service[filename])
              IN  IF ~analysis.ok THEN analysis
                  ELSE IF analysis.value.issues # <<>>
                       THEN AnalyzeFrom(pr_files, file_contents, service, i + 1,
                                        all_issues \o analysis.value.issues,
                                        Append(results_files, analysis.value))
                       ELSE AnalyzeFrom(pr_files, file_contents, service, i + 1,
                                        all_issues, results_files)

\* CodeReviewOrchestrator.analyze_pr
analyze_pr(pr_files, file_contents, service) ==
    AnalyzeFrom(pr_files, file_contents, service, 1, <<>>, <<>>)

\* the loop of step 2 of analyze_github_pr: only the first FileLimit entries are
\* fetched; blobs: filename -> answer of the GitHub API
RECURSIVE FetchFrom(_, _, _, _)
FetchFrom(pr_files, blobs, i, file_contents) ==
    IF i > Len(pr_files) \/ i > FileLimit THEN file_contents
    ELSE LET filename == pr_files[i].filename
             content  == get_file_content(blobs[filename])
         IN  IF content.some /\ content.len > 0 /\ content.len < ContentLimit
             THEN FetchFrom(pr_files, blobs, i + 1,
                            [f \in DOMAIN file_contents \cup {filename} |->
                                IF f = filename THEN content ELSE file_contents[f]])
             ELSE FetchFrom(pr_files, blobs, i + 1, file_contents)

EmptyDict == [f \in {} |-> NoContent]

json_dumps(v) == Str(<<v>>)

\* json.loads of a stored text: the text json.dumps wrote holds one value; an
\* empty text and a text with data after the value raise JSONDecodeError
json_loads(text) ==
    IF Len(text) = 1 THEN Return(text[1]) ELSE Raise(<<"JSONDecodeError">>)

\* ------------------------------------------------------------- the inputs
\* the worker processes; Workers are the ones that take work where runs of a
\* job are not to overlap
AllWorkers == {"w1", "w2"}
Workers    == {"w1"}
\* identifiers in generation order; UnknownId is never generated
TaskIdSeq  == <<"t1">>
UnknownId  == "t0"

UrlGood    == <<"https:", "/", "/", "github.com", "/", "acme", "/", "widgets">>
UrlOther   == <<"https:", "/", "/", "gitlab.com", "/", "acme", "/", "widgets">>
SubmitUrls    == {UrlGood, UrlOther}
SubmitNumbers == {0, 42}

FileA == [filename |-> <<"main", ".py">>]
FileB == [filename |-> <<"README", ".md">>]

\* answers of the GitHub API to the file listing
ListingAnswers ==
    {HttpFail("timeout"), HttpOk(<<>>), HttpOk(<<FileA>>), HttpOk(<<FileB>>)}
\* answers of the GitHub API to a contents request
BlobAnswers ==
    {HttpFail("404"), HttpOk(Content(120)), HttpOk(Content(AnalysisLimit + 1)),
     HttpOk(Content(ContentLimit))}

NoIssues   == LlmSays(<<TOpen, TClose>>)
OneIssue   == LlmSays(<<TJunk, TOpen, TObj("1", "d1", "style"), TClose, TJunk>>)
OtherIssue == LlmSays(<<TOpen, TObj("2", "d2", None), TClose>>)
\* answers of the generation service to the four agents, for one file
AgentAnswers ==
    {[a \in {"style", "bug", "performance", "best_practice"} |-> LlmRaises],
     [a \in {"style", "bug", "performance", "best_practice"} |-> LlmSays(<<TJunk>>)],
     [a \in {"style", "bug", "performance", "best_practice"} |->
         LlmSays(<<TOpen, TJunk, TClose, TOpen, TClose>>)],
     [style |-> OneIssue, bug |-> OneIssue, performance |-> LlmRaises,
      best_practice |-> OtherIssue],
     [style |-> NoIssues, bug |-> LlmSays(<<TOpen, TNum, TClose>>),
      performance |-> NoIssues, best_practice |-> NoIssues]}

\* messages of the exceptions the database layer raises
DbMessages   == {MsgDbDown}
\* and of those the commit of line 86 raises
SaveMessages == {MsgDbDown, MsgDbLost}
\* what step 3 can raise apart from analyze_pr itself: CodeReviewOrchestrator()
\* fails on a missing configuration (the text line 104 looks for), or the soft
\* time limit of the task (line 28) expires before the analysis starts
AnalyzeFaults == {Return(<<>>), Raise(MsgNotConfigured), Raise(MsgSoftTimeLimit)}

\* --------------------------------------------------------------- the state
\* the status values written by main.py 98 and tasks.py 45, 82, 97
InitialStatus_Processing == "processing"
InitialStatus   == "pending"
StatusAtStart   == "processing"
StatusOnSuccess == "completed"
StatusOnFailure == "failed"

NewRow(repo_url, pr_number) ==
    [repo_url |-> repo_url, pr_number |-> [str |-> pr_number],
     status |-> InitialStatus, results |-> Null, error_message |-> Null]

WorkItem(task_id, repo_url, pr_number, retries) ==
    [task_id |-> task_id, repo_url |-> repo_url, pr_number |-> pr_number,
     retries |-> retries]
NoItem == WorkItem(None, <<>>, 0, 0)

\* what a session holds of a row after db.query(...).first()
NotLoaded == [found |-> FALSE, status |-> None, results |-> Null, error_message |-> Null]
Loaded(row) ==
    [found |-> TRUE, status |-> row.status, results |-> row.results,
     error_message |-> row.error_message]

\* a frame of analyze_github_pr; trace lists the calls and writes it has made,
\* fetches the arguments of its get_file_content calls, calls the arguments of
\* its analyze_file calls, task the row its last query has loaded, found the
\* row as the query of step 1 found it
Frame(pc, item) ==
    [pc |-> pc, item |-> item, listing |-> None, pr_files |-> <<>>,
     file_contents |-> EmptyDict, analysis_results |-> <<>>, e |-> Null,
     trace |-> <<>>, fetches |-> <<>>, calls |-> <<>>, task |-> NotLoaded,
     found |-> NotLoaded]

NoResp == [op |-> "none", code |-> 0, task_id |-> None, status |-> None,
           delivered |-> FALSE]

Init ==
    /\ tasks = [t \in {} |-> NewRow(<<>>, 0)]
    /\ queue = EmptyBag
    /\ run = [w \in AllWorkers |-> Frame("idle", NoItem)]
    /\ dbUp = TRUE
    /\ outages = 0
    /\ extra = 0
    /\ resp = NoResp
    /\ accepted = {}
    /\ delivered = {}

\* ------------------------------------------------------------ request path
\* the test of line 89 left out
ValidRequest_AnyNumber(repo_url, pr_number) == Contains(repo_url, <<"github.com">>)

\* main.py 86-90: the two tests a request has to pass
ValidRequest(repo_url, pr_number) ==
    /\ Contains(repo_url, <<"github.com">>)
    /\ ~(pr_number <= 0)

\* POST /analyze-pr (main.py analyze_pr)
Submit(repo_url, pr_number, brokerOk) ==
    LET answer(code, id, st) ==
            [op |-> "analyze-pr", code |-> code, task_id |-> id, status |-> st,
             delivered |-> FALSE]
    IN
    /\ resp = NoResp
    /\ IF ~ValidRequest(repo_url, pr_number)
       THEN /\ resp' = answer(400, None, None)
            /\ UNCHANGED <<tasks, queue, accepted>>
       ELSE IF ~dbUp
       THEN /\ resp' = answer(500, None, None)
            /\ UNCHANGED <<tasks, queue, accepted>>
       ELSE /\ Cardinality(accepted \cup DOMAIN tasks) < Len(TaskIdSeq)
            /\ LET task_id == TaskIdSeq[Cardinality(accepted \cup DOMAIN tasks) + 1] IN
               /\ tasks' = [t \in DOMAIN tasks \cup {task_id} |->
                               IF t = task_id THEN NewRow(repo_url, pr_number)
                               ELSE tasks[t]]
               /\ IF brokerOk
                  THEN /\ queue' = queue (+)
                                   SetToBag({WorkItem(task_id, repo_url, pr_number, 0)})
                       /\ accepted' = accepted \cup {task_id}
                       /\ resp' = answer(200, task_id, "pending")
                  ELSE /\ resp' = answer(500, None, None)
                       /\ UNCHANGED <<queue, accepted>>
    /\ UNCHANGED <<run, dbUp, outages, extra, delivered>>

\* GET /status/{task_id} (main.py get_status)
Status(task_id) ==
    /\ resp = NoResp
    /\ resp' =
         IF ~dbUp
         THEN [op |-> "status", code |-> 500, task_id |-> task_id, status |-> None,
               delivered |-> task_id \in delivered]
         ELSE IF task_id \notin DOMAIN tasks
         THEN [op |-> "status", code |-> 404, task_id |-> task_id, status |-> None,
               delivered |-> task_id \in delivered]
         ELSE [op |-> "status", code |-> 200, task_id |-> task_id,
               status |-> tasks[task_id].status, delivered |-> task_id \in delivered]
    /\ UNCHANGED <<tasks, queue, run, dbUp, outages, extra, accepted, delivered>>

\* the message of line 166 as spec 7 words it
MsgInvalidResults_Payload == <<"Invalid", "results", "payload">>

\* main.py 166
MsgInvalidResults == <<"Invalid", "results", "JSON">>

\* a lookup that answers for every identifier
Results_NoLookup(task_id) ==
    /\ resp = NoResp
    /\ resp' = [op |-> "results", code |-> 200, task_id |-> task_id,
                status |-> InitialStatus, delivered |-> task_id \in delivered,
                results |-> Null, error_message |-> Null]
    /\ UNCHANGED <<tasks, queue, run, dbUp, outages, extra, accepted, delivered>>

\* GET /results/{task_id} (main.py get_results); in the response results is
\* Null where the key is missing or None, and Str(<<v>>) for the parsed value v
Results(task_id) ==
    LET answer(code, st, res, err) ==
            [op |-> "results", code |-> code, task_id |-> task_id, status |-> st,
             delivered |-> task_id \in delivered, results |-> res,
             error_message |-> err]
    IN
    /\ resp = NoResp
    /\ resp' =
         IF ~dbUp THEN answer(500, None, Null, Null)
         ELSE IF task_id \notin DOMAIN tasks THEN answer(404, None, Null, Null)
         ELSE LET task == tasks[task_id] IN
              IF ~task.results.null /\ task.results.text # <<>>
              THEN LET parsed == json_loads(task.results.text) IN
                   IF parsed.ok
                   THEN answer(200, task.status, Str(<<parsed.value>>), task.error_message)
                   ELSE answer(200, task.status, Null, Str(MsgInvalidResults))
              ELSE answer(200, task.status, Null, task.error_message)
    /\ UNCHANGED <<tasks, queue, run, dbUp, outages, extra, accepted, delivered>>

\* ------------------------------------------------------------- environment
StoreDown ==
    /\ resp = NoResp
    /\ dbUp /\ outages < MaxOutages
    /\ dbUp' = FALSE /\ outages' = outages + 1
    /\ UNCHANGED <<tasks, queue, run, extra, resp, accepted, delivered>>

StoreUp ==
    /\ resp = NoResp
    /\ ~dbUp
    /\ dbUp' = TRUE
    /\ UNCHANGED <<tasks, queue, run, outages, extra, resp, accepted, delivered>>

\* rows are never deleted by the service itself; retention is left to the operator
\* of the database, who may delete the row of a task at any time
Purge(task_id) ==
    /\ resp = NoResp
    /\ task_id \in DOMAIN tasks
    /\ tasks' = [t \in DOMAIN tasks \ {task_id} |-> tasks[t]]
    /\ UNCHANGED <<queue, run, dbUp, outages, extra, resp, accepted, delivered>>

\* the stored payload of a row is damaged outside the service: cut to the empty
\* text, or followed by a second copy of itself
Corrupt(task_id, cut) ==
    /\ resp = NoResp
    /\ task_id \in DOMAIN tasks
    /\ ~tasks[task_id].results.null /\ Len(tasks[task_id].results.text) = 1
    /\ tasks' = [tasks EXCEPT ![task_id].results =
                     IF cut THEN Str(<<>>) ELSE Str(@.text \o @.text)]
    /\ UNCHANGED <<queue, run, dbUp, outages, extra, resp, accepted, delivered>>

\* ------------------------------------------------------------- worker side
Resting(w) == run[w].pc = "idle"

\* the broker hands a work item to a worker; at-least-once: the item may stay
\* in the broker and be handed out again
Deliver(w, item, acked) ==
    /\ resp = NoResp
    /\ Resting(w)
    /\ BagIn(item, queue)
    /\ IF acked
       THEN queue' = queue (-) SetToBag({item}) /\ extra' = extra
       ELSE extra < MaxRedeliver /\ extra' = extra + 1 /\ queue' = queue
    /\ run' = [run EXCEPT ![w] = Frame("begin", item)]
    /\ delivered' = delivered \cup {item.task_id}
    /\ UNCHANGED <<tasks, dbUp, outages, resp, accepted>>

Fail(f, msg) == [f EXCEPT !.pc = "except", !.e = Str(msg)]

\* step 1 without its write
BeginRun_NoWrite(w, dbmsg) ==
    /\ resp = NoResp
    /\ run[w].pc = "begin"
    /\ run' = [run EXCEPT ![w] = IF ~dbUp THEN Fail(run[w], dbmsg)
                                 ELSE [run[w] EXCEPT !.pc = "list"]]
    /\ UNCHANGED <<tasks, queue, dbUp, outages, extra, resp, accepted, delivered>>

\* tasks.py 42-47: status := processing, if the row exists; with remember the
\* frame keeps the row as the query found it (history, read by no step)
Begin(w, dbmsg, remember) ==
    /\ resp = NoResp
    /\ run[w].pc = "begin"
    /\ LET f == run[w] task_id == f.item.task_id IN
       IF ~dbUp
       THEN /\ run' = [run EXCEPT ![w] = Fail(f, dbmsg)]
            /\ tasks' = tasks
       ELSE IF task_id \in DOMAIN tasks
       THEN /\ tasks' = [tasks EXCEPT ![task_id].status = StatusAtStart]
            /\ run' = [run EXCEPT ![w] =
                          [f EXCEPT !.pc = "list", !.trace = Append(@, "processing"),
                                    !.found = IF remember THEN Loaded(tasks[task_id])
                                              ELSE NotLoaded]]
       ELSE /\ tasks' = tasks
            /\ run' = [run EXCEPT ![w] = [f EXCEPT !.pc = "list"]]
    /\ UNCHANGED <<queue, dbUp, outages, extra, resp, accepted, delivered>>

BeginRun(w, dbmsg) == Begin(w, dbmsg, FALSE)
\* the same step in the runs of the catalogue
BeginRunFrom(w, dbmsg) == Begin(w, dbmsg, TRUE)

\* tasks.py 49-55: list the files of the pull request
ListFiles(w, http) ==
    /\ resp = NoResp
    /\ run[w].pc = "list"
    /\ LET f == run[w]
           pr_files == get_pr_files(f.item.repo_url, http)
           g == [f EXCEPT !.listing = http.kind, !.trace = Append(@, "list")]
       IN  run' = [run EXCEPT ![w] =
                      IF pr_files = <<>>
                      THEN Fail(g, MsgNoCodeFiles)
                      ELSE [g EXCEPT !.pc = "fetch", !.pr_files = pr_files]]
    /\ UNCHANGED <<tasks, queue, dbUp, outages, extra, resp, accepted, delivered>>

\* the names whose blobs step 2 asks for
FetchedNames(pr_files) ==
    {pr_files[i].filename : i \in {j \in 1..Len(pr_files) : j <= FileLimit}}
FetchCount(pr_files) == IF Len(pr_files) < FileLimit THEN Len(pr_files) ELSE FileLimit

\* the get_file_content calls of step 2: position in pr_files and file name
FetchRequests(pr_files) ==
    [i \in 1..FetchCount(pr_files) |-> [index |-> i, filename |-> pr_files[i].filename]]

\* tasks.py 57-72: fetch the contents of the first files
FetchContents(w, blobs) ==
    /\ resp = NoResp
    /\ run[w].pc = "fetch"
    /\ LET f == run[w] IN
       run' = [run EXCEPT ![w] =
                  [f EXCEPT !.pc = "analyze",
                            !.file_contents = FetchFrom(f.pr_files, blobs, 1, EmptyDict),
                            !.fetches = FetchRequests(f.pr_files),
                            !.trace = @ \o [i \in 1..FetchCount(f.pr_files) |-> "blob"]]]
    /\ UNCHANGED <<tasks, queue, dbUp, outages, extra, resp, accepted, delivered>>

\* the number of agents analyze_file invokes before it returns or raises
AgentsInvoked(llms) ==
    LET bad == {k \in 1..Len(AgentTypes) :
                   ~Tag(analyze(llms[AgentTypes[k]]), AgentTypes[k]).ok}
    IN  IF bad = {} THEN Len(AgentTypes)
        ELSE CHOOSE k \in bad : \A j \in bad : k <= j

\* the agent invocations of analyze_pr, in order
RECURSIVE AgentCalls(_, _, _, _)
AgentCalls(pr_files, file_contents, service, i) ==
    IF i > Len(pr_files) THEN <<>>
    ELSE LET filename == pr_files[i].filename IN
         IF \/ ~is_code_file(filename)
            \/ filename \notin DOMAIN file_contents
            \/ file_contents[filename].len = 0
         THEN AgentCalls(pr_files, file_contents, service, i + 1)
         ELSE LET calls == [k \in 1..AgentsInvoked(service[filename]) |-> "agent"] IN
              IF analyze_file(file_contents[filename], filename, service[filename]).ok
              THEN calls \o AgentCalls(pr_files, file_contents, service, i + 1)
              ELSE calls

\* the analyze_file calls of analyze_pr, in order: position in pr_files, file
\* name and length of the code handed to the four agents
RECURSIVE FileCalls(_, _, _, _)
FileCalls(pr_files, file_contents, service, i) ==
    IF i > Len(pr_files) THEN <<>>
    ELSE LET filename == pr_files[i].filename IN
         IF \/ ~is_code_file(filename)
            \/ filename \notin DOMAIN file_contents
            \/ file_contents[filename].len = 0
         THEN FileCalls(pr_files, file_contents, service, i + 1)
         ELSE LET code == Content(Truncate(file_contents[filename].len))
                  call == [index |-> i, filename |-> filename, len |-> code.len]
              IN  IF analyze_file(code, filename, service[filename]).ok
                  THEN <<call>> \o FileCalls(pr_files, file_contents, service, i + 1)
                  ELSE <<call>>

\* an analysis that asks for one more blob after the agents have run
Analyze_FetchesLate(w, fault, service) ==
    /\ resp = NoResp
    /\ run[w].pc = "analyze"
    /\ LET f == run[w]
           r == analyze_pr(f.pr_files, f.file_contents, service)
           g == [f EXCEPT !.trace = @ \o AgentCalls(f.pr_files, f.file_contents, service, 1)
                                      \o <<"blob">>,
                          !.calls = FileCalls(f.pr_files, f.file_contents, service, 1)]
       IN  run' = [run EXCEPT ![w] =
                      IF ~fault.ok THEN Fail(f, fault.exc)
                      ELSE IF ~r.ok THEN Fail(g, r.exc)
                      ELSE [g EXCEPT !.pc = "save", !.analysis_results = r.value]]
    /\ UNCHANGED <<tasks, queue, dbUp, outages, extra, resp, accepted, delivered>>

\* tasks.py 74-77: build the orchestrator and run analyze_pr
Analyze(w, fault, service) ==
    /\ resp = NoResp
    /\ run[w].pc = "analyze"
    /\ LET f == run[w]
           r == analyze_pr(f.pr_files, f.file_contents, service)
           g == [f EXCEPT !.trace = @ \o AgentCalls(f.pr_files, f.file_contents, service, 1),
                          !.calls = FileCalls(f.pr_files, f.file_contents, service, 1)]
       IN  run' = [run EXCEPT ![w] =
                      IF ~fault.ok THEN Fail(f, fault.exc)
                      ELSE IF ~r.ok THEN Fail(g, r.exc)
                      ELSE [g EXCEPT !.pc = "save", !.analysis_results = r.value]]
    /\ UNCHANGED <<tasks, queue, dbUp, outages, extra, resp, accepted, delivered>>

\* the worker process once the task function has returned or raised
Idle == Frame("idle", NoItem)

\* a save that leaves the error message of the row as it is
SaveResults_KeepError(w, dbmsg) ==
    /\ resp = NoResp
    /\ run[w].pc = "save"
    /\ LET f == run[w] task_id == f.item.task_id IN
       IF ~dbUp
       THEN /\ run' = [run EXCEPT ![w] = Fail(f, dbmsg)]
            /\ tasks' = tasks
       ELSE IF task_id \in DOMAIN tasks
       THEN /\ tasks' = [tasks EXCEPT ![task_id].status = StatusOnSuccess,
                                      ![task_id].results = json_dumps(f.analysis_results)]
            /\ run' = [run EXCEPT ![w] = Idle]
       ELSE /\ tasks' = tasks
            /\ run' = [run EXCEPT ![w] = Idle]
    /\ UNCHANGED <<queue, dbUp, outages, extra, resp, accepted, delivered>>

\* tasks.py 79-89: status := completed with the results, if the row exists
SaveResults(w, dbmsg) ==
    /\ resp = NoResp
    /\ run[w].pc = "save"
    /\ LET f == run[w] task_id == f.item.task_id IN
       IF ~dbUp
       THEN /\ run' = [run EXCEPT ![w] = Fail(f, dbmsg)]
            /\ tasks' = tasks
       ELSE IF task_id \in DOMAIN tasks
       THEN /\ tasks' = [tasks EXCEPT ![task_id].status = StatusOnSuccess,
                                      ![task_id].results = json_dumps(f.analysis_results),
                                      ![task_id].error_message = Null]
            /\ run' = [run EXCEPT ![w] =
                          Idle]
       ELSE /\ tasks' = tasks
            /\ run' = [run EXCEPT ![w] = Idle]
    /\ UNCHANGED <<queue, dbUp, outages, extra, resp, accepted, delivered>>

\* a handler that adds the number of the attempt to the message
HandleFailure_Numbered(w) ==
    /\ resp = NoResp
    /\ run[w].pc = "except"
    /\ LET f == run[w] task_id == f.item.task_id IN
       IF dbUp /\ task_id \in DOMAIN tasks
       THEN /\ tasks' = [tasks EXCEPT ![task_id].status = StatusOnFailure,
                                      ![task_id].error_message =
                                          Str(f.e.text \o <<ToString(f.item.retries)>>)]
            /\ run' = [run EXCEPT ![w] =
                          [f EXCEPT !.pc = "decide", !.trace = Append(@, "failed")]]
       ELSE /\ tasks' = tasks
            /\ run' = [run EXCEPT ![w] = [f EXCEPT !.pc = "decide"]]
    /\ UNCHANGED <<queue, dbUp, outages, extra, resp, accepted, delivered>>

\* tasks.py 91-102: status := failed with str(e), if the row exists; a database
\* error here is logged and dropped
HandleFailure(w) ==
    /\ resp = NoResp
    /\ run[w].pc = "except"
    /\ LET f == run[w] task_id == f.item.task_id IN
       IF dbUp /\ task_id \in DOMAIN tasks
       THEN /\ tasks' = [tasks EXCEPT ![task_id].status = StatusOnFailure,
                                      ![task_id].error_message = f.e]
            /\ run' = [run EXCEPT ![w] =
                          [f EXCEPT !.pc = "decide", !.trace = Append(@, "failed")]]
       ELSE /\ tasks' = tasks
            /\ run' = [run EXCEPT ![w] = [f EXCEPT !.pc = "decide"]]
    /\ UNCHANGED <<queue, dbUp, outages, extra, resp, accepted, delivered>>

\* one retry too many
CanRetry_OffByOne(item) == item.retries <= max_retries

\* Task.retry of the task queue library: a new work item while retries remain
CanRetry(item) == item.retries < max_retries

\* tasks.py 104-110: re-raise a terminal failure, else self.retry(countdown=5)
RetryDecision(w) ==
    /\ resp = NoResp
    /\ run[w].pc = "decide"
    /\ LET f == run[w] IN
       IF IsTerminalMessage(f.e.text) \/ ~CanRetry(f.item)
       THEN /\ queue' = queue
            /\ run' = [run EXCEPT ![w] = Idle]
       ELSE /\ queue' = queue (+) SetToBag({[f.item EXCEPT !.retries = @ + 1]})
            /\ run' = [run EXCEPT ![w] = Idle]
    /\ UNCHANGED <<tasks, dbUp, outages, extra, resp, accepted, delivered>>

\* ------------------------------------------------------------ specification
AllIds == {TaskIdSeq[i] : i \in 1..Len(TaskIdSeq)} \cup {UnknownId}

\* the client reads the response
Read ==
    /\ resp # NoResp
    /\ resp' = NoResp
    /\ UNCHANGED <<tasks, queue, run, dbUp, outages, extra, accepted, delivered>>

\* the steps of submitting a job, asking for its status and running it
NextJob ==
    \/ Read
    \/ \E u \in SubmitUrls, n \in SubmitNumbers, b \in BOOLEAN : Submit(u, n, b)
    \/ \E t \in AllIds : Status(t)
    \/ \E w \in Workers : \E item \in BagToSet(queue), a \in BOOLEAN : Deliver(w, item, a)
    \/ \E w \in Workers, m \in DbMessages : BeginRun(w, m)
    \/ \E w \in Workers, h \in ListingAnswers : ListFiles(w, h)
    \/ \E w \in Workers :
          \E blobs \in [FetchedNames(run[w].pr_files) -> BlobAnswers] : FetchContents(w, blobs)
    \/ \E w \in Workers, c \in AnalyzeFaults :
          \E service \in [FetchedNames(run[w].pr_files) -> AgentAnswers] :
              Analyze(w, c, service)
    \/ \E w \in Workers, m \in SaveMessages : SaveResults(w, m)
    \/ \E w \in Workers : HandleFailure(w)
    \/ \E w \in Workers : RetryDecision(w)

\* the steps of the service while the database answers and rows are retained
NextNominal ==
    \/ NextJob
    \/ \E t \in AllIds : Results(t)

\* the steps of a job, with database outages and deleted rows
Next ==
    \/ NextJob
    \/ StoreDown
    \/ StoreUp
    \/ \E t \in AllIds : Purge(t)

Spec == Init /\ [][Next]_vars

SpecNominal == Init /\ [][NextNominal]_vars

\* the nominal steps, with stored payloads damaged outside the service
NextDamaged ==
    \/ NextNominal
    \/ \E t \in AllIds, cut \in BOOLEAN : Corrupt(t, cut)

SpecDamaged == Init /\ [][NextDamaged]_vars

\* ------------------------------------------------ a catalogue of pull requests
\* Pull requests whose files, blobs and reviews do not change between two runs:
\* the pull request number selects what GitHub and the generation service
\* answer for it.
Doc(i)      == [filename |-> <<"doc", ToString(i), ".md">>]
Docs        == [i \in 1..(FileLimit - 1) |-> Doc(i)]
FileC       == [filename |-> <<"util", ".js">>]
FileLast    == [filename |-> <<"last", ".py">>]
FileBeyond  == [filename |-> <<"beyond", ".py">>]
\* FileLimit + 1 entries, no two alike, code files at the last two positions
ListDistinct == Docs \o <<FileLast, FileBeyond>>
\* FileLimit + 1 entries, the first file name again at the last position
ListRepeated == <<FileA>> \o Docs \o <<FileA>>

ListingSeq ==
    <<HttpFail("timeout"), HttpOk(<<>>), HttpOk(<<FileA>>), HttpOk(<<FileB>>),
      HttpOk(<<FileA, FileB, FileC>>), HttpOk(ListDistinct), HttpOk(ListRepeated)>>
BlobSeq ==
    <<HttpFail("404"), HttpOk(Content(120)), HttpOk(Content(AnalysisLimit + 1)),
      HttpOk(Content(ContentLimit - 1)), HttpOk(Content(ContentLimit)),
      HttpOk(Content(0))>>

\* an answer with the findings of lines lo..hi, all with the same description
Findings(lo, hi) ==
    LlmSays(<<TOpen>> \o [i \in 1..(hi - lo + 1) |-> TObj(ToString(lo + i - 1), "d1", None)]
            \o <<TClose>>)
AgentSeq ==
    <<[style |-> NoIssues, bug |-> NoIssues, performance |-> NoIssues,
       best_practice |-> NoIssues],
      [style |-> OneIssue, bug |-> OneIssue, performance |-> LlmRaises,
       best_practice |-> OtherIssue],
      [style |-> NoIssues, bug |-> OtherIssue, performance |-> OneIssue,
       best_practice |-> OneIssue],
      [style |-> Findings(1, 6), bug |-> Findings(4, 9), performance |-> Findings(10, 12),
       best_practice |-> OneIssue],
      [style |-> LlmSays(<<TOpen, TObj("1", "d1", None), TObj("1", "d2", None),
                           TObj("1", "d1", "bug"), TClose>>),
       bug |-> LlmSays(<<TJunk>>), performance |-> NoIssues, best_practice |-> NoIssues],
      [style |-> NoIssues, bug |-> LlmSays(<<TOpen, TNum, TClose>>),
       performance |-> NoIssues, best_practice |-> NoIssues]>>
FaultSeq == <<Return(<<>>), Raise(MsgNotConfigured), Raise(MsgSoftTimeLimit)>>

NumPulls == Len(ListingSeq) * Len(BlobSeq) * Len(AgentSeq) * Len(FaultSeq)

\* what is answered for pull request number n
Pull(n) ==
    LET k  == n - 1
        nl == Len(ListingSeq)
        nb == Len(BlobSeq)
        na == Len(AgentSeq)
    IN  [listing |-> ListingSeq[(k % nl) + 1],
         blob    |-> BlobSeq[((k \div nl) % nb) + 1],
         agents  |-> AgentSeq[((k \div (nl * nb)) % na) + 1],
         fault   |-> FaultSeq[(k \div (nl * nb * na)) + 1]]
PullOf(item) == Pull(item.pr_number)
\* the answers of the generation service for the files named: nothing is found
\* in util.js, the other files get the answers of the pull request
ServiceOf(item, names) ==
    [f \in names |-> IF f = FileC.filename THEN AgentSeq[1] ELSE PullOf(item).agents]

\* the state after POST /analyze-pr for one pull request of the catalogue
InitCatalogue ==
    \E n \in 1..NumPulls :
        /\ tasks = [t \in {TaskIdSeq[1]} |-> NewRow(UrlGood, n)]
        /\ queue = SetToBag({WorkItem(TaskIdSeq[1], UrlGood, n, 0)})
        /\ run = [w \in AllWorkers |-> Frame("idle", NoItem)]
        /\ dbUp = TRUE
        /\ outages = 0
        /\ extra = 0
        /\ resp = NoResp
        /\ accepted = {TaskIdSeq[1]}
        /\ delivered = {}

\* the runs of the job, one after another, with the answers of the catalogue
NextCatalogue ==
    \/ \E w \in Workers : \E item \in BagToSet(queue), a \in BOOLEAN : Deliver(w, item, a)
    \/ \E w \in Workers, m \in DbMessages : BeginRunFrom(w, m)
    \/ \E w \in Workers :
          /\ run[w].pc = "list"
          /\ ListFiles(w, PullOf(run[w].item).listing)
    \/ \E w \in Workers :
          /\ run[w].pc = "fetch"
          /\ FetchContents(w, [f \in FetchedNames(run[w].pr_files) |->
                                  PullOf(run[w].item).blob])
    \/ \E w \in Workers :
          /\ run[w].pc = "analyze"
          /\ Analyze(w, PullOf(run[w].item).fault,
                     ServiceOf(run[w].item, FetchedNames(run[w].pr_files)))
    \/ \E w \in Workers, m \in DbMessages : SaveResults(w, m)
    \/ \E w \in Workers : HandleFailure(w)
    \/ \E w \in Workers : RetryDecision(w)

SpecCatalogue == InitCatalogue /\ [][NextCatalogue]_vars

\* ------------------------------------------- runs of one job that overlap
\* Two worker processes, each with its own session. A write of the task is a
\* query that loads the row into the session and, later, a commit that
\* flushes the assigned attributes; the steps of the two processes interleave.
\* Steps 1 to 3 between the first commit and the next query are one step here.

\* Session.commit after attribute assignments: the UPDATE sets the columns
\* whose assigned value differs from the value the query loaded (updated_at,
\* not modelled, is among them in every commit)
Flush(row, loaded, assigned) ==
    [c \in DOMAIN row |->
        IF c \in DOMAIN assigned /\ assigned[c] # loaded[c] THEN assigned[c] ELSE row[c]]

\* db.query(CodeReviewTask).filter(...).first() of lines 43, 80 and 95
Query(w, dbmsg) ==
    /\ resp = NoResp
    /\ run[w].pc \in {"begin", "save", "except"}
    /\ LET f == run[w] task_id == f.item.task_id IN
       run' = [run EXCEPT ![w] =
                  IF ~dbUp
                  THEN IF f.pc = "except" THEN [f EXCEPT !.pc = "decide"]
                       ELSE Fail(f, dbmsg)
                  ELSE [f EXCEPT !.pc = IF f.pc = "begin" THEN "begin_commit"
                                        ELSE IF f.pc = "save" THEN "save_commit"
                                        ELSE "except_commit",
                                 !.task = IF task_id \in DOMAIN tasks
                                          THEN Loaded(tasks[task_id]) ELSE NotLoaded]]
    /\ UNCHANGED <<tasks, queue, dbUp, outages, extra, resp, accepted, delivered>>

\* the assignments and db.commit() of lines 44-47, 81-86 and 96-100
Commit(w) ==
    /\ resp = NoResp
    /\ run[w].pc \in {"begin_commit", "save_commit", "except_commit"}
    /\ LET f == run[w]
           task_id == f.item.task_id
           assigned ==
               IF f.pc = "begin_commit" THEN [status |-> StatusAtStart]
               ELSE IF f.pc = "save_commit"
               THEN [status |-> StatusOnSuccess,
                     results |-> json_dumps(f.analysis_results),
                     error_message |-> Null]
               ELSE [status |-> StatusOnFailure, error_message |-> f.e]
       IN
       /\ tasks' = IF f.task.found /\ task_id \in DOMAIN tasks
                   THEN [tasks EXCEPT ![task_id] = Flush(@, f.task, assigned)]
                   ELSE tasks
       /\ run' = [run EXCEPT ![w] =
                     IF f.pc = "begin_commit"
                     THEN [f EXCEPT !.pc = "pipeline"]
                     ELSE IF f.pc = "save_commit" THEN Idle
                     ELSE [f EXCEPT !.pc = "decide"]]
    /\ UNCHANGED <<queue, dbUp, outages, extra, resp, accepted, delivered>>

\* tasks.py 49-77 in one step: list the files, fetch the contents, analyse
Pipeline(w, http, blobs, fault, service) ==
    /\ resp = NoResp
    /\ run[w].pc = "pipeline"
    /\ LET f == run[w]
           pr_files == get_pr_files(f.item.repo_url, http)
           file_contents == FetchFrom(pr_files, blobs, 1, EmptyDict)
           r == analyze_pr(pr_files, file_contents, service)
       IN  run' = [run EXCEPT ![w] =
                      IF pr_files = <<>> THEN Fail(f, MsgNoCodeFiles)
                      ELSE IF ~fault.ok THEN Fail(f, fault.exc)
                      ELSE IF ~r.ok THEN Fail(f, r.exc)
                      ELSE [f EXCEPT !.pc = "save", !.analysis_results = r.value]]
    /\ UNCHANGED <<tasks, queue, dbUp, outages, extra, resp, accepted, delivered>>

OverlapListings == {HttpOk(<<>>), HttpOk(<<FileA>>)}
OverlapBlobs    == {HttpOk(Content(120))}
OverlapAgents   == {AgentSeq[1], AgentSeq[2], AgentSeq[6]}
OverlapFaults   == {Return(<<>>), Raise(MsgSoftTimeLimit)}

\* the state after one accepted POST /analyze-pr
InitOverlap ==
    /\ tasks = [t \in {TaskIdSeq[1]} |-> NewRow(UrlGood, 42)]
    /\ queue = SetToBag({WorkItem(TaskIdSeq[1], UrlGood, 42, 0)})
    /\ run = [w \in AllWorkers |-> Frame("idle", NoItem)]
    /\ dbUp = TRUE
    /\ outages = 0
    /\ extra = 0
    /\ resp = NoResp
    /\ accepted = {TaskIdSeq[1]}
    /\ delivered = {}

NextOverlap ==
    \/ \E w \in AllWorkers : \E item \in BagToSet(queue), a \in BOOLEAN : Deliver(w, item, a)
    \/ \E w \in AllWorkers, m \in DbMessages : Query(w, m)
    \/ \E w \in AllWorkers : Commit(w)
    \/ \E w \in AllWorkers, h \in OverlapListings, b \in OverlapBlobs, c \in OverlapFaults,
          a \in OverlapAgents :
          Pipeline(w, h, [f \in {FileA.filename} |-> b], c, [f \in {FileA.filename} |-> a])
    \/ \E w \in AllWorkers : RetryDecision(w)

SpecOverlap == InitOverlap /\ [][NextOverlap]_vars

\* ------------------------------------------- one job under fair scheduling

\* the runs of one accepted job, with database outages that end
NextFair ==
    \/ \E w \in Workers : \E item \in BagToSet(queue), a \in BOOLEAN : Deliver(w, item, a)
    \/ \E w \in Workers, m \in DbMessages : BeginRun(w, m)
    \/ \E w \in Workers, h \in ListingAnswers : ListFiles(w, h)
    \/ \E w \in Workers :
          \E blobs \in [FetchedNames(run[w].pr_files) -> BlobAnswers] : FetchContents(w, blobs)
    \/ \E w \in Workers, c \in AnalyzeFaults :
          \E service \in [FetchedNames(run[w].pr_files) -> AgentAnswers] :
              Analyze(w, c, service)
    \/ \E w \in Workers, m \in SaveMessages : SaveResults(w, m)
    \/ \E w \in Workers : HandleFailure(w)
    \/ \E w \in Workers : RetryDecision(w)
    \/ StoreDown
    \/ StoreUp

\* the broker delivers every queued work item, a worker that has taken one
\* executes its next statement, every call returns
WorkerStep ==
    \/ \E w \in Workers : \E item \in BagToSet(queue), a \in BOOLEAN : Deliver(w, item, a)
    \/ \E w \in Workers, m \in DbMessages : BeginRun(w, m)
    \/ \E w \in Workers, h \in ListingAnswers : ListFiles(w, h)
    \/ \E w \in Workers :
          \E blobs \in [FetchedNames(run[w].pr_files) -> BlobAnswers] : FetchContents(w, blobs)
    \/ \E w \in Workers, c \in AnalyzeFaults :
          \E service \in [FetchedNames(run[w].pr_files) -> AgentAnswers] :
              Analyze(w, c, service)
    \/ \E w \in Workers, m \in SaveMessages : SaveResults(w, m)
    \/ \E w \in Workers : HandleFailure(w)
    \/ \E w \in Workers : RetryDecision(w)

SpecFair ==
    InitOverlap /\ [][NextFair]_vars /\ WF_vars(WorkerStep) /\ WF_vars(StoreUp)

\* ================================================================ properties
Rows == DOMAIN tasks
InTrace(f, x) == \E i \in 1..Len(f.trace) : f.trace[i] = x
\* worker w ends its run in this step
RunEnds(w) == run[w].pc # "idle" /\ run'[w].pc = "idle"
\* the work item self.retry sends
RetryOf(item) == [item EXCEPT !.retries = @ + 1]
RetryScheduled(w) == queue' = queue (+) SetToBag({RetryOf(run[w].item)})
\* the listing of this run came back empty from the GitHub API
ListedEmpty(f) == f.listing = "ok" /\ f.pr_files = <<>> /\ InTrace(f, "list")
\* a file analyze_pr hands to the agents
Eligible(f, i) ==
    /\ is_code_file(f.pr_files[i].filename)
    /\ f.pr_files[i].filename \in DOMAIN f.file_contents
    /\ f.file_contents[f.pr_files[i].filename].len > 0

\* ---- C1
\* C1 as claimed: the stored status only moves pending -> processing ->
\* completed or failed, completed never changes, and failed is left only for
\* processing at the start of a retry attempt.
C1_AsClaimed ==
    [][\A t \in Rows \cap DOMAIN tasks' :
         tasks[t].status # tasks'[t].status =>
            \/ <<tasks[t].status, tasks'[t].status>> \in
                  {<<"pending", "processing">>, <<"processing", "completed">>,
                   <<"processing", "failed">>}
            \/ /\ tasks[t].status = "failed" /\ tasks'[t].status = "processing"
               /\ \E w \in Workers : /\ run[w].pc = "begin"
                                     /\ run[w].item.task_id = t
                                     /\ run[w].item.retries > 0]_vars

\* C1 amended (the database answers, runs of one job do not overlap): the
\* status only moves pending -> processing -> completed or failed, and every
\* later run of the job, a retry attempt or a redelivery of the work item,
\* first moves completed or failed back to processing.
C1_StatusMoves ==
    [][\A t \in Rows \cap DOMAIN tasks' :
         tasks[t].status # tasks'[t].status =>
            /\ <<tasks[t].status, tasks'[t].status>> \in
                  {<<"pending", "processing">>, <<"processing", "completed">>,
                   <<"processing", "failed">>, <<"completed", "processing">>,
                   <<"failed", "processing">>}
            /\ tasks'[t].status = "processing" =>
                  \E w \in Workers : run[w].pc = "begin" /\ run[w].item.task_id = t]_vars

\* a run of a redelivered work item has moved a completed job back to processing
C1_Witness ==
    \E t \in Rows : tasks[t].status = "processing" /\ ~tasks[t].results.null

\* ---- C2
\* C2 as claimed: a job in pending or processing has neither results nor an
\* error message, also in the processing state a retry attempt enters.
C2_AsClaimed ==
    \A t \in Rows :
        tasks[t].status \in {"pending", "processing"} =>
            tasks[t].results.null /\ tasks[t].error_message.null

\* ---- C3
\* C3 as claimed: a completed job has results and no error message, a failed
\* job has an error message and no results, after any sequence of runs.
C3_AsClaimed ==
    \A t \in Rows :
        /\ tasks[t].status = "completed" =>
              ~tasks[t].results.null /\ tasks[t].error_message.null
        /\ tasks[t].status = "failed" =>
              ~tasks[t].error_message.null /\ tasks[t].results.null

\* ---- C4
\* C4: a work item is executed at most 1 + max_retries times: every failure
\* that is not terminal sends a retry while fewer than max_retries were made,
\* and after the last attempt nothing is sent and the job rests in failed with
\* the message of that attempt.
C4_RetriesBounded ==
    /\ [](\A item \in BagToSet(queue) : item.retries <= max_retries)
    /\ [][\A w \in Workers :
            (run[w].pc = "decide" /\ RunEnds(w) /\ ~IsTerminalMessage(run[w].e.text)) =>
               LET f == run[w] t == f.item.task_id IN
               /\ f.item.retries <= max_retries
               /\ f.item.retries < max_retries => RetryScheduled(w)
               /\ f.item.retries = max_retries =>
                     /\ queue' = queue
                     /\ tasks'[t].status = "failed"
                     /\ tasks'[t].error_message = f.e]_vars

\* the third execution has failed with a transient failure and is about to end
C4_Witness ==
    \E w \in Workers :
        /\ run[w].pc = "decide" /\ run[w].item.retries = max_retries
        /\ ~IsTerminalMessage(run[w].e.text)
        /\ tasks[run[w].item.task_id].status = "failed"

\* ---- C5
\* C5 as claimed: a run whose file listing fails with a network error sets the
\* job to failed and sends a retry while retries remain.
C5_AsClaimed ==
    [][\A w \in Workers :
          (run[w].pc = "decide" /\ RunEnds(w) /\ run[w].listing = "timeout"
              /\ run[w].item.retries < max_retries) =>
             /\ tasks'[run[w].item.task_id].status = "failed"
             /\ RetryScheduled(w)]_vars

\* ---- C6
\* C6: a run whose file listing comes back empty ends with the job in failed
\* with the "No code files" message, has invoked no agent, and sends no retry.
C6_EmptyListing ==
    [][\A w \in Workers :
          (run[w].pc = "decide" /\ RunEnds(w) /\ ListedEmpty(run[w])) =>
             LET t == run[w].item.task_id IN
             /\ tasks'[t].status = "failed"
             /\ tasks'[t].error_message = Str(MsgNoCodeFiles)
             /\ Contains(tasks'[t].error_message.text, <<"No", "code", "files">>)
             /\ ~InTrace(run[w], "agent") /\ ~InTrace(run[w], "blob")
             /\ queue' = queue]_vars

\* the listing came back empty, the failure is stored, the run is about to end
C6_Witness ==
    \E w \in Workers :
        /\ run[w].pc = "decide" /\ ListedEmpty(run[w])
        /\ tasks[run[w].item.task_id].status = "failed"

\* ---- C7
\* C7 as claimed: a run whose file list is not empty but holds no file handed
\* to the agents ends with the job in failed, not in completed.
C7_AsClaimed ==
    [][\A w \in Workers :
          (RunEnds(w) /\ run[w].pr_files # <<>>
              /\ \A i \in 1..Len(run[w].pr_files) : ~Eligible(run[w], i)) =>
             tasks'[run[w].item.task_id].status = "failed"]_vars

\* ---- C8
\* C8 as claimed: a run delivered for an identifier without a row is dropped:
\* it makes no call to GitHub or to an agent (every call of a run follows its
\* write of processing), writes nothing and sends no retry.
C8_AsClaimed ==
    /\ [](\A w \in Workers : run[w].trace # <<>> => run[w].trace[1] = "processing")
    /\ [][\A w \in Workers :
            (run[w].pc = "begin" /\ run'[w].pc # "begin"
                /\ dbUp /\ run[w].item.task_id \notin Rows) =>
               run'[w].pc = "idle" /\ tasks' = tasks /\ queue' = queue]_vars

\* ---- C9
\* C9 as claimed: whatever the agents answer, a run that has listed the files
\* and invoked the agents does not fail.
C9_AsClaimed ==
    \A w \in Workers :
        InTrace(run[w], "agent") => run[w].pc \notin {"except", "decide"}

\* ---- C10
\* C10 as claimed: a status query for a job whose submit has returned observes
\* pending.
C10_AsClaimed ==
    (resp.op = "status" /\ resp.code = 200 /\ resp.task_id \in accepted) =>
        resp.status = "pending"

\* C10 amended: such a query observes pending as long as the work item of the
\* job has not been handed to a worker; afterwards it may observe processing,
\* completed or failed.
C10_PendingUntilDelivered ==
    (resp.op = "status" /\ resp.code = 200 /\ resp.task_id \in accepted
        /\ ~resp.delivered) =>
        resp.status = "pending"

\* a status query answered before any worker has taken the work item
C10_Witness ==
    /\ resp.op = "status" /\ resp.code = 200 /\ resp.task_id \in accepted
    /\ ~resp.delivered /\ resp.status = "pending"

\* ---- C11
\* C11: a submit whose repository URL does not name the host, or whose pull
\* request number is not positive, is answered 400 and changes nothing: no
\* row is created and no work item is enqueued.
C11_InvalidRejected ==
    [][resp'.op = "analyze-pr" =>
          \/ /\ resp'.code = 400
             /\ tasks' = tasks /\ queue' = queue /\ accepted' = accepted
          \/ \A u \in SubmitUrls, n \in SubmitNumbers, b \in BOOLEAN :
                ((\A i \in 1..Len(u) : u[i] # "github.com") \/ n < 1) =>
                   ~Submit(u, n, b)]_vars

\* an invalid submit has been answered, and there is neither a row nor a work item
C11_Witness ==
    /\ resp.op = "analyze-pr" /\ resp.code = 400
    /\ Rows = {} /\ queue = EmptyBag

\* ---- C12
\* C12 as claimed: after any sequence of submits, also failed ones, every
\* pending row that no worker has been handed yet has exactly one work item in
\* the broker, and every work item in the broker names an existing row.
C12_AsClaimed ==
    /\ \A t \in Rows :
          (tasks[t].status = "pending" /\ t \notin delivered) =>
             /\ Cardinality({item \in BagToSet(queue) : item.task_id = t}) = 1
             /\ \A item \in BagToSet(queue) :
                   item.task_id = t => CopiesIn(item, queue) = 1
    /\ \A item \in BagToSet(queue) : item.task_id \in Rows

\* ---- helpers for the stored result
\* the result json.dumps wrote into the row of t
ResultOf(t) == tasks[t].results.text[1]
Stored == {t \in Rows : ~tasks[t].results.null}
\* the order step 3 of analyzeFile fixes
FixedOrder == <<"style", "bug", "performance", "best_practice">>
\* the findings variant k returned for an answer vector, with its category
Reported(llms, k) ==
    LET out == analyze(llms[FixedOrder[k]])
    IN  [i \in 1..Len(out) |->
            [line |-> out[i].line, description |-> out[i].description,
             type |-> FixedOrder[k]]]
Concatenation(llms) ==
    Reported(llms, 1) \o Reported(llms, 2) \o Reported(llms, 3) \o Reported(llms, 4)
SameKey(a, b) == a.line = b.line /\ a.description = b.description
\* the positions of s that hold the first finding of their key
FirstPositions(s) == {i \in 1..Len(s) : \A j \in 1..(i - 1) : ~SameKey(s[j], s[i])}
\* the k-th smallest element of a set of numbers
Nth(S, k) == CHOOSE i \in S : Cardinality({j \in S : j < i}) = k - 1
FirstOccurrences(s) ==
    [k \in 1..Cardinality(FirstPositions(s)) |-> s[Nth(FirstPositions(s), k)]]
Prefix(s, n) == [i \in 1..(IF Len(s) < n THEN Len(s) ELSE n) |-> s[i]]
RECURSIVE SumIssues(_)
SumIssues(files) ==
    IF files = <<>> THEN 0 ELSE Len(Head(files).issues) + SumIssues(Tail(files))
RECURSIVE CountType(_, _)
CountType(files, ty) ==
    IF files = <<>> THEN 0
    ELSE Cardinality({i \in 1..Len(Head(files).issues) : Head(files).issues[i].type = ty})
         + CountType(Tail(files), ty)
\* the answers the catalogue holds for the job of row t
PullOfRow(t) == Pull(tasks[t].pr_number.str)

\* ---- C13
\* C13: every file entry of a stored result has at least 1 and at most
\* IssueLimit (10) findings, however many the four agents returned.
C13_EntrySize ==
    \A t \in Stored :
        \A i \in 1..Len(ResultOf(t).files) :
            /\ Len(ResultOf(t).files[i].issues) >= 1
            /\ Len(ResultOf(t).files[i].issues) <= IssueLimit

\* a stored entry of exactly IssueLimit findings where the agents returned more
\* than IssueLimit findings with pairwise different keys
C13_Witness ==
    \E t \in Stored :
        /\ tasks[t].status = "completed"
        /\ Cardinality(FirstPositions(Concatenation(PullOfRow(t).agents))) > IssueLimit
        /\ \E i \in 1..Len(ResultOf(t).files) :
              Len(ResultOf(t).files[i].issues) = IssueLimit

\* ---- C14
\* C14: the findings stored for a file are the first findings of their key
\* (line, description) in the concatenation style, bug, performance,
\* best_practice of what the agents returned, in that order, cut to IssueLimit;
\* so a key reported by two agents carries the category of the earlier one.
C14_FirstOccurrenceKept ==
    \A t \in Stored :
        LET all == Concatenation(PullOfRow(t).agents) IN
        \A i \in 1..Len(ResultOf(t).files) :
            LET issues == ResultOf(t).files[i].issues IN
            /\ issues = Prefix(FirstOccurrences(all), IssueLimit)
            /\ \A x \in 1..Len(issues), y \in 1..Len(issues) :
                  x # y => ~SameKey(issues[x], issues[y])
            /\ \A x \in 1..Len(issues) :
                  \A k \in 1..Len(FixedOrder) :
                      (\E j \in 1..Len(Reported(PullOfRow(t).agents, k)) :
                           SameKey(Reported(PullOfRow(t).agents, k)[j], issues[x])) =>
                         \E k0 \in 1..k : issues[x].type = FixedOrder[k0]

\* the style agent and the bug agent reported the same key, and the stored
\* finding of that key is a style finding
C14_Witness ==
    \E t \in Stored :
        LET llms == PullOfRow(t).agents IN
        \E a \in 1..Len(Reported(llms, 1)), b \in 1..Len(Reported(llms, 2)) :
            /\ SameKey(Reported(llms, 1)[a], Reported(llms, 2)[b])
            /\ \E i \in 1..Len(ResultOf(t).files) :
                  \E x \in 1..Len(ResultOf(t).files[i].issues) :
                      /\ SameKey(ResultOf(t).files[i].issues[x], Reported(llms, 1)[a])
                      /\ ResultOf(t).files[i].issues[x].type = "style"

\* ---- C15
\* C15: in every stored result of a completed job the summary agrees with the
\* files: total_files is the number of entries, total_issues the sum of the
\* lengths of their findings, critical_issues the number of bug findings, and
\* critical_issues <= total_issues.
C15_SummaryConsistent ==
    \A t \in Stored :
        tasks[t].status = "completed" =>
            LET r == ResultOf(t) IN
            /\ r.summary.total_files = Len(r.files)
            /\ r.summary.total_issues = SumIssues(r.files)
            /\ r.summary.critical_issues = CountType(r.files, "bug")
            /\ r.summary.critical_issues <= r.summary.total_issues

\* a completed job with two file entries, bug findings and other findings
C15_Witness ==
    \E t \in Stored :
        /\ tasks[t].status = "completed"
        /\ Len(ResultOf(t).files) = 2
        /\ ResultOf(t).summary.critical_issues > 0
        /\ ResultOf(t).summary.critical_issues < ResultOf(t).summary.total_issues

\* ---- C16
\* C16: the code of every analyze_file call, which is the code each of the four
\* agents is invoked with, is no longer than AnalysisLimit (10000) and has the
\* length min(len(content), AnalysisLimit) of the fetched content of its file.
C16_CodeWithinLimit ==
    \A w \in Workers :
        \A c \in 1..Len(run[w].calls) :
            LET call == run[w].calls[c]
                n == run[w].file_contents[call.filename].len
            IN  /\ call.len <= AnalysisLimit
                /\ call.len = IF n < AnalysisLimit THEN n ELSE AnalysisLimit

\* the agents were invoked for a file whose fetched content is longer
C16_Witness ==
    \E w \in Workers :
        \E c \in 1..Len(run[w].calls) :
            /\ run[w].file_contents[run[w].calls[c].filename].len > AnalysisLimit
            /\ run[w].calls[c].len = AnalysisLimit
            /\ InTrace(run[w], "agent")

\* ---- C17
\* C17 as claimed: in a run whose analysis has returned, every code file among
\* the first FileLimit entries whose blob is longer than AnalysisLimit, whatever
\* its length, has been handed to the agents.
C17_AsClaimed ==
    \A w \in Workers :
        run[w].pc = "save" =>
            LET f == run[w] blob == get_file_content(PullOf(f.item).blob) IN
            \A i \in 1..Len(f.pr_files) :
                (i <= FileLimit /\ is_code_file(f.pr_files[i].filename)
                    /\ blob.some /\ blob.len > AnalysisLimit) =>
                   \E c \in 1..Len(f.calls) : f.calls[c].index = i

\* ---- C18
\* C18 as claimed: for every file list, also one that names a file twice, an
\* entry after the first FileLimit (15) is never an argument of
\* get_file_content, never handed to the agents, and gives no file entry of the
\* result.
C18_AsClaimed ==
    \A w \in Workers :
        LET f == run[w] IN
        /\ \A c \in 1..Len(f.fetches) : f.fetches[c].index <= FileLimit
        /\ \A c \in 1..Len(f.calls) : f.calls[c].index <= FileLimit
        /\ f.pc = "save" =>
              \A e \in 1..Len(f.analysis_results.files) :
                  LET name == f.analysis_results.files[e].name IN
                  Cardinality({x \in 1..Len(f.analysis_results.files) :
                                  f.analysis_results.files[x].name = name})
                    <= Cardinality({i \in 1..Len(f.pr_files) :
                                  i <= FileLimit /\ f.pr_files[i].filename = name})

\* ---- C19
\* C19: while GitHub and the generation service answer a pull request the same
\* way (and the database answers), a run that starts from the row an earlier
\* run of the job has left leaves that row with the same status, results and
\* error message: running twice or more gives what running once gives.
C19_RunIdempotent ==
    [][\A w \in Workers :
          (RunEnds(w) /\ run[w].found.found
              /\ run[w].found.status \in {"completed", "failed"}) =>
             Loaded(tasks'[run[w].item.task_id]) = run[w].found]_vars

\* a run of a redelivered work item is about to end on a completed job
C19_Witness ==
    \E w \in Workers :
        /\ run[w].pc = "save"
        /\ run[w].found.found /\ run[w].found.status = "completed"
        /\ run[w].analysis_results.files # <<>>

\* ---- C20
\* C20 as claimed: in every reachable state, also after redelivery and while
\* or after two runs of the job overlap, a failed job has an error message that
\* is not empty, and a completed job has a result with files and summary.
C20_AsClaimed ==
    \A t \in Rows :
        /\ tasks[t].status = "failed" =>
              ~tasks[t].error_message.null /\ tasks[t].error_message.text # <<>>
        /\ tasks[t].status = "completed" =>
              /\ ~tasks[t].results.null
              /\ DOMAIN ResultOf(t) = {"files", "summary"}
              /\ {"total_files", "total_issues", "critical_issues"}
                    \subseteq DOMAIN ResultOf(t).summary

\* ---- C21
\* the stored payload of row t does not parse
CorruptPayload(t) ==
    /\ t \in Rows
    /\ ~tasks[t].results.null
    /\ Len(tasks[t].results.text) # 1

\* C21 as claimed: a results query for a job whose stored payload does not
\* parse is answered 200 with no results and the error message
\* "Invalid results payload".
C21_AsClaimed ==
    (resp.op = "results" /\ dbUp /\ CorruptPayload(resp.task_id)) =>
        /\ resp.code = 200
        /\ resp.results.null
        /\ resp.error_message = Str(<<"Invalid", "results", "payload">>)

\* C21 amended: such a query is answered 200 with no results; the error message
\* is "Invalid results JSON" where the stored payload is not empty, and the
\* stored error message of the job where the stored payload is the empty text.
C21_CorruptPayloadAnswered ==
    (resp.op = "results" /\ dbUp /\ CorruptPayload(resp.task_id)) =>
        /\ resp.code = 200
        /\ resp.status = tasks[resp.task_id].status
        /\ resp.results.null
        /\ resp.error_message =
              IF tasks[resp.task_id].results.text # <<>>
              THEN Str(<<"Invalid", "results", "JSON">>)
              ELSE tasks[resp.task_id].error_message

\* a results query has been answered for a payload with data after the value
C21_Witness ==
    /\ resp.op = "results" /\ resp.code = 200
    /\ CorruptPayload(resp.task_id)
    /\ Len(tasks[resp.task_id].results.text) = 2
    /\ resp.error_message = Str(<<"Invalid", "results", "JSON">>)

\* ---- C22
\* C22: while the database answers, GET /status and GET /results change
\* neither the table nor the broker; for a known identifier they answer 200
\* with the stored status (and /results with the stored error message and the
\* stored result), for an unknown identifier 404.
C22_PureReads ==
    [][(resp = NoResp /\ resp'.op \in {"status", "results"}) =>
          /\ tasks' = tasks /\ queue' = queue /\ run' = run
          /\ LET id == resp'.task_id IN
             IF id \in Rows
             THEN /\ resp'.code = 200
                  /\ resp'.status = tasks[id].status
                  /\ resp'.op = "results" =>
                        /\ resp'.error_message = tasks[id].error_message
                        /\ resp'.results = IF tasks[id].results.null THEN Null
                                           ELSE Str(<<ResultOf(id)>>)
             ELSE resp'.code = 404]_vars

\* a results query has returned the stored result of a completed job
C22_Witness ==
    /\ resp.op = "results" /\ resp.code = 200
    /\ resp.task_id \in Rows
    /\ tasks[resp.task_id].status = "completed"
    /\ ~resp.results.null /\ resp.results.text = <<ResultOf(resp.task_id)>>

\* ---- C23
\* the answers of the four agents with every finding returned twice in a row
Twice(llms) ==
    [a \in DOMAIN llms |->
        LlmSays(<<TOpen>> \o analyze(llms[a]) \o analyze(llms[a]) \o <<TClose>>)]

\* C23: analyze_file gives for the outputs of the four agents, each fed twice
\* in a row, what it gives for the outputs fed once (the same file result, or
\* the same exception), the stored file entries are that result, and removing
\* the duplicates of a list of findings it returned gives that list.
C23_DedupIdempotent ==
    \A t \in Rows :
        LET llms  == PullOfRow(t).agents
            once  == analyze_file(Content(1), FileA.filename, llms)
            twice == analyze_file(Content(1), FileA.filename, Twice(llms))
        IN  /\ twice = once
            /\ once.ok => Unique(once.value.issues, {}, <<>>) = Return(once.value.issues)
            /\ ~tasks[t].results.null =>
                  \A i \in 1..Len(ResultOf(t).files) :
                      /\ twice.ok
                      /\ ResultOf(t).files[i].issues = twice.value.issues
                      /\ Unique(ResultOf(t).files[i].issues, {}, <<>>)
                            = Return(ResultOf(t).files[i].issues)

\* a stored file entry for agents that returned findings, some of them with
\* equal keys, so that fed twice they return twice as many
C23_Witness ==
    \E t \in Stored :
        LET llms == PullOfRow(t).agents IN
        /\ ResultOf(t).files # <<>>
        /\ Len(Concatenation(llms)) > Len(ResultOf(t).files[1].issues)
        /\ Len(Concatenation(Twice(llms))) = 2 * Len(Concatenation(llms))

\* ---- C27
\* C27: every stored finding has the type of an agent that returned a finding
\* of its line and description (style, bug, performance or best_practice),
\* whatever type the generation service wrote into it.
C27_TypeForced ==
    \A t \in Stored :
        \A i \in 1..Len(ResultOf(t).files) :
            \A x \in 1..Len(ResultOf(t).files[i].issues) :
                LET issue == ResultOf(t).files[i].issues[x] IN
                \E k \in 1..Len(FixedOrder) :
                    /\ issue.type = FixedOrder[k]
                    /\ \E j \in 1..Len(Reported(PullOfRow(t).agents, k)) :
                          SameKey(Reported(PullOfRow(t).agents, k)[j], issue)

\* a stored performance finding that the generation service had typed style
C27_Witness ==
    \E t \in Stored :
        \E i \in 1..Len(ResultOf(t).files) :
            \E x \in 1..Len(ResultOf(t).files[i].issues) :
                LET issue == ResultOf(t).files[i].issues[x]
                    out == analyze(PullOfRow(t).agents["performance"])
                IN  /\ issue.type = "performance"
                    /\ \E j \in 1..Len(out) :
                          /\ out[j].line = issue.line
                          /\ out[j].description = issue.description
                          /\ out[j].type = "style"

\* ---- C28
\* the file name ends in one of the extensions of line 188-191
RecognizedExtension(filename) ==
    /\ filename # <<>>
    /\ filename[Len(filename)] \in
          {".py", ".js", ".ts", ".tsx", ".jsx", ".java", ".go", ".rs",
           ".cpp", ".c", ".rb", ".php", ".swift", ".kt", ".scala", ".sh"}
\* entry i of the file list of frame f is to be analysed
ToAnalyse(f, i) ==
    /\ RecognizedExtension(f.pr_files[i].filename)
    /\ f.pr_files[i].filename \in DOMAIN f.file_contents
    /\ f.file_contents[f.pr_files[i].filename].len > 0
\* the agents return a finding for the file of this call
FindingSurvives(f, call) ==
    Concatenation(ServiceOf(f.item, {call.filename})[call.filename]) # <<>>

\* C28: in a run whose analysis has returned, the analyze_file calls are the
\* entries of the file list with a recognized extension, a fetched content and
\* a content that is not empty, in the order of the list; and the files of the
\* result are the analysed files for which a finding survives, in that order.
C28_AnalysedFiles ==
    \A w \in Workers :
        run[w].pc = "save" =>
            LET f == run[w]
                Kept(call) == FindingSurvives(f, call)
                kept == SelectSeq(f.calls, Kept)
            IN  /\ {f.calls[c].index : c \in 1..Len(f.calls)}
                      = {i \in 1..Len(f.pr_files) : ToAnalyse(f, i)}
                /\ \A c \in 1..Len(f.calls), d \in 1..Len(f.calls) :
                      c < d => f.calls[c].index < f.calls[d].index
                /\ \A c \in 1..Len(f.calls) :
                      f.calls[c].filename = f.pr_files[f.calls[c].index].filename
                /\ Len(f.analysis_results.files) = Len(kept)
                /\ \A e \in 1..Len(kept) :
                      f.analysis_results.files[e].name = kept[e].filename

\* main.py and util.js were analysed, README.md was not, and only main.py, for
\* which findings survive, is in the result
C28_Witness ==
    \E w \in Workers :
        /\ run[w].pc = "save"
        /\ Len(run[w].pr_files) = 3
        /\ Len(run[w].calls) = 2
        /\ Len(run[w].analysis_results.files) = 1
        /\ run[w].analysis_results.files[1].name = FileA.filename

\* ---- C24
\* C24 as claimed: when the retry decision of a failed run is taken, the row of
\* the job is failed with the message of that run; every retry attempt starts
\* from a row in failed; and a row is in processing only while a run of its
\* job is under way.
C24_AsClaimed ==
    /\ [](\A w \in Workers :
             (run[w].pc = "decide" /\ run[w].item.task_id \in Rows) =>
                /\ tasks[run[w].item.task_id].status = "failed"
                /\ tasks[run[w].item.task_id].error_message = run[w].e)
    /\ [](\A w \in Workers :
             (run[w].pc = "begin" /\ run[w].item.retries > 0
                 /\ run[w].item.task_id \in Rows) =>
                tasks[run[w].item.task_id].status = "failed")
    /\ [](\A t \in Rows :
             tasks[t].status = "processing" =>
                \E w \in Workers : ~Resting(w) /\ run[w].item.task_id = t)

\* ---- C25
\* C25: the work item of a retry names the job, repository and pull request of
\* the failed run; the first step of a retry attempt sets the row, failed or
\* not, to processing; and when the attempt succeeds the row is completed with
\* the results of that attempt and without an error message.
C25_RetryOverwrites ==
    [][\A w \in Workers :
          LET f == run[w] t == f.item.task_id IN
          /\ (f.pc = "decide" /\ queue' # queue) =>
                /\ queue' = queue (+) SetToBag({RetryOf(f.item)})
                /\ RetryOf(f.item).task_id = t
                /\ RetryOf(f.item).repo_url = f.item.repo_url
                /\ RetryOf(f.item).pr_number = f.item.pr_number
          /\ (f.pc = "begin" /\ run'[w].pc # "begin" /\ f.item.retries > 0 /\ t \in Rows) =>
                /\ tasks'[t].status = "processing"
                /\ DOMAIN tasks' = DOMAIN tasks
          /\ (f.pc = "save" /\ RunEnds(w) /\ f.item.retries > 0 /\ t \in Rows) =>
                /\ tasks'[t].status = "completed"
                /\ tasks'[t].results = json_dumps(f.analysis_results)
                /\ tasks'[t].error_message = Null]_vars

\* a retry attempt has set the failed row to processing and its analysis has
\* returned; the message of the failed run is still in the row
C25_Witness ==
    \E w \in Workers :
        /\ run[w].pc = "save" /\ run[w].item.retries > 0
        /\ run[w].item.task_id \in Rows
        /\ tasks[run[w].item.task_id].status = "processing"
        /\ ~tasks[run[w].item.task_id].error_message.null

\* ---- C26
\* C26 as claimed: a failed run with retries left sends a retry unless the
\* analysis service is not configured or the file listing came back empty,
\* whatever the message of the failure reads.
C26_AsClaimed ==
    [][\A w \in Workers :
          (run[w].pc = "decide" /\ RunEnds(w) /\ run[w].item.retries < max_retries
              /\ run[w].e.text # MsgNotConfigured /\ ~ListedEmpty(run[w])) =>
             RetryScheduled(w)]_vars

\* ---- C29
Rank(x) ==
    CASE x = "processing" -> 1 [] x = "list" -> 2 [] x = "blob" -> 3
      [] x = "agent" -> 4 [] x = "failed" -> 5

\* C29: the steps of a run are in the order write of processing, file listing,
\* blob requests, agent invocations, write of failed; a listing that failed or
\* came back empty is followed by no blob request and no agent invocation; and
\* a row becomes completed or failed only in the step after the analysis of a
\* run of its job.
C29_StepOrder ==
    /\ [](\A w \in Workers :
             LET trace == run[w].trace IN
             /\ trace # <<>> => trace[1] = "processing"
             /\ \A i \in 1..Len(trace), j \in 1..Len(trace) :
                   i < j => /\ Rank(trace[i]) <= Rank(trace[j])
                            /\ trace[i] \in {"processing", "list", "failed"} =>
                                  Rank(trace[i]) < Rank(trace[j])
             /\ (InTrace(run[w], "list") /\ run[w].pr_files = <<>>) =>
                   ~InTrace(run[w], "blob") /\ ~InTrace(run[w], "agent"))
    /\ [][\A t \in Rows \cap DOMAIN tasks' :
             (tasks'[t].status # tasks[t].status
                 /\ tasks'[t].status \in {"completed", "failed"}) =>
                \E w \in Workers :
                    /\ run[w].item.task_id = t
                    /\ \/ run[w].pc = "save" /\ tasks'[t].status = "completed"
                       \/ run[w].pc = "except" /\ tasks'[t].status = "failed"
                    /\ run'[w].pc \in {"idle", "decide"}]_vars

\* a run that wrote processing, listed, fetched, invoked agents and wrote failed
C29_Witness ==
    \E w \in Workers :
        /\ run[w].pc = "decide"
        /\ \A x \in {"processing", "list", "blob", "agent", "failed"} : InTrace(run[w], x)

\* ---- C30
\* C30 as claimed: under fair scheduling, with calls that return and outages
\* that end, the accepted job whose work item was enqueued leaves pending and
\* processing for good: from some point on its row is completed or failed.
C30_AsClaimed ==
    <>[](/\ TaskIdSeq[1] \in Rows
         /\ tasks[TaskIdSeq[1]].status \in {"completed", "failed"})

====
